---- MODULE Spec2Model ----
(***************************************************************************)
(* Model of the Telegraph uploader bot (src/main.py): the dispatch of an   *)
(* inbound message to start_handlers, photo_handler or text_handler, the   *)
(* photo flow (placeholder reply, scratch directory, download, upload,     *)
(* reply edit, cleanup) and the text flow (emoji stripping, title          *)
(* detection, line-break markup, page creation, reply edit).               *)
(*                                                                         *)
(* Text is a sequence of tokens.  A token is one character class or one    *)
(* literal the code's patterns look at: the word "title" in two letter     *)
(* cases, a colon, a space, a newline, an ordinary character, the opening  *)
(* and the closing emoji tag and a literal "<br>".                         *)
(***************************************************************************)
EXTENDS Naturals, Sequences, FiniteSets

\* ------------------------------------------------------------------ bounds

\* Longest message text, in tokens.
MaxLen == 4
\* Handler invocations that may be in flight together.
MaxInFlight == 2

\* ------------------------------------------------------------------ tokens

NL == "\n"
SP == " "
COLON == ":"
BR == "<br>"
EmojiOpen == "<emoji id=\"1\">"
EmojiClose == "</emoji>"
TitleWords == {"title", "Title"}
Whitespace == {SP, NL}
Tokens == TitleWords \cup {COLON, SP, NL, "a", EmojiOpen, EmojiClose, BR}

SeqsUpTo(S, n) == UNION {[1..k -> S] : k \in 0..n}

\* s with the tokens of T deleted (str.replace / re.sub with an empty
\* replacement, on tokens).
Delete(s, T) == SelectSeq(s, LAMBDA c : c \notin T)

\* re.sub(EMOJI_PATTERN, "", content)
SubEmoji(s) == Delete(s, {EmojiOpen})

\* re.sub(EMOJI_PATTERN, "", content).replace("</emoji>", "")
StripEmoji(s) == Delete(SubEmoji(s), {EmojiClose})

\* str.strip(): leading and trailing whitespace removed.
Strip(s) ==
    LET keep == {k \in 1..Len(s) : s[k] \notin Whitespace}
        Min(S) == CHOOSE x \in S : \A y \in S : x <= y
        Max(S) == CHOOSE x \in S : \A y \in S : x >= y
    IN IF keep = {} THEN <<>> ELSE SubSeq(s, Min(keep), Max(keep))

\* The pattern without its "^": a match may start anywhere.
LineStartAnywhere(s, p) == TRUE

\* Position p is where "^" matches under re.MULTILINE.
LineStart(s, p) == p = 1 \/ s[p - 1] = NL

\* Positions where TITLE_PATTERN matches: "^title" under re.IGNORECASE.
TitleStarts(s) == {p \in 1..Len(s) : LineStart(s, p) /\ s[p] \in TitleWords}

\* The first position at or after p whose token is not in T (Len(s) + 1 when
\* there is none): a greedy T*.
SkipWhile(s, p, T) ==
    LET stop == {k \in p..Len(s) : s[k] \notin T}
    IN IF stop = {} THEN Len(s) + 1 ELSE CHOOSE k \in stop : \A j \in stop : k <= j

\* re.search(TITLE_PATTERN, content): no match, or the leftmost match with
\* its span [from, to] and the span [g1, to] of group 1.
\* "^title" ":?" "\s*" "(.*)": the colon is optional, \s* also runs over
\* newlines, and .* stops before the next newline.
TitleSearch(s) ==
    IF TitleStarts(s) = {} THEN [found |-> FALSE, from |-> 0, g1 |-> 0, to |-> 0]
    ELSE LET p == CHOOSE x \in TitleStarts(s) : \A y \in TitleStarts(s) : x <= y
             c == IF p + 1 <= Len(s) /\ s[p + 1] = COLON THEN p + 2 ELSE p + 1
             g == SkipWhile(s, c, Whitespace)
             e == SkipWhile(s, g, Tokens \ {NL}) - 1
         IN [found |-> TRUE, from |-> p, g1 |-> g, to |-> e]

\* match.group(1)
Group1(s, m) == SubSeq(s, m.g1, m.to)

\* re.sub(TITLE_PATTERN, "", content, count=1)
SubTitleOnce(s, m) == SubSeq(s, 1, m.from - 1) \o SubSeq(s, m.to + 1, Len(s))

\* content.replace("\n", "<br>", 1): only the first line break is replaced.
ReplaceFirstNewline(s) ==
    [k \in 1..Len(s) |->
        IF s[k] = NL /\ \A j \in 1..(k - 1) : s[j] # NL THEN BR ELSE s[k]]

\* content.replace("\n", "<br>")
ReplaceNewlines(s) == [k \in 1..Len(s) |-> IF s[k] = NL THEN BR ELSE s[k]]

\* ---------------------------------------------------------------- messages

\* The readings of the wall clock (whole seconds) a handler may get.
ClockReadings == {0, 10}

Slots == 1..MaxInFlight

\* message.from_user.id of the senders; 1 and 11 render as "1" and "11".
Senders == {1, 11}
\* message.from_user.first_name and message.from_user.username (None: absent).
FirstName == <<"Alice">>
None == "<None>"
Usernames == {None, "bob"}
Media == {"photo", "text", "sticker"}

Message(sender, private, outgoing, media, command, text, username) ==
    [sender |-> sender, private |-> private, outgoing |-> outgoing,
     media |-> media, command |-> command, text |-> text,
     first_name |-> FirstName, username |-> username]

\* The message texts of the handler specification, and of the text
\* specification (every text of at most MaxLen tokens).
SampleTexts == {<<"a", NL, "a">>}
AllTexts == SeqsUpTo(Tokens, MaxLen)

\* Inbound events of the chat transport.  command: the text (or the caption
\* of a photo) is the command "/start".  Private incoming photos come from
\* every sender and private incoming texts with and without a public handle;
\* then a message of each kind no handler is for: of a chat that is not
\* private, of a medium no filter names, and one the client sent itself.
Inbound ==
    {Message(s, TRUE, FALSE, "photo", FALSE, t, None) : s \in Senders, t \in SampleTexts}
    \cup {Message(1, TRUE, FALSE, "text", FALSE, t, u) : t \in SampleTexts, u \in Usernames}
    \cup {Message(1, TRUE, FALSE, k, TRUE, t, None) :
            k \in {"photo", "text"}, t \in SampleTexts}
    \cup {Message(1, FALSE, FALSE, k, TRUE, t, None) :
            k \in {"photo", "text"}, t \in SampleTexts}
    \cup {Message(1, TRUE, FALSE, "sticker", FALSE, <<>>, None)}
    \cup {Message(1, TRUE, TRUE, "text", FALSE, t, None) : t \in SampleTexts}

\* Private incoming text messages that are no command, with any text.
TextInbound ==
    {Message(1, TRUE, FALSE, "text", FALSE, t, None) : t \in AllTexts}

NoMessage == Message(0, FALSE, FALSE, "sticker", FALSE, <<>>, None)

\* ---------------------------------------------------------------- dispatch

\* Every handler registered in a group of its own.
RegistryOwnGroups ==
    << [name |-> "start_handlers", group |-> 0],
       [name |-> "photo_handler", group |-> 1],
       [name |-> "text_handler", group |-> 2] >>

\* The handlers in the order of their registration; bot.on_message without a
\* group registers in group 0.
Registry ==
    << [name |-> "start_handlers", group |-> 0],
       [name |-> "photo_handler", group |-> 0],
       [name |-> "text_handler", group |-> 0] >>

\* filters.command("start") & filters.incoming & filters.private
StartFilter(m) ==
    /\ m.command /\ m.media \in {"text", "photo"}
    /\ ~m.outgoing
    /\ m.private

\* filters.photo & filters.incoming & filters.private
PhotoFilter(m) == m.media = "photo" /\ ~m.outgoing /\ m.private

\* filters.text & filters.incoming & filters.private
TextFilter(m) == m.media = "text" /\ ~m.outgoing /\ m.private

Matches(name, m) ==
    CASE name = "start_handlers" -> StartFilter(m)
      [] name = "photo_handler" -> PhotoFilter(m)
      [] name = "text_handler" -> TextFilter(m)

\* The handlers the client's dispatcher runs for m: in every group, the first
\* registered handler whose filter matches, and no other of that group.
HandlersRun(m) ==
    {Registry[k].name : k \in
        {k \in 1..Len(Registry) :
            /\ Matches(Registry[k].name, m)
            /\ \A j \in 1..(k - 1) :
                 Registry[j].group = Registry[k].group => ~Matches(Registry[j].name, m)}}

\* ------------------------------------------------------------------- state

\* inv[i]: the invocation in slot i.
\*   msgIn         the inbound message
\*   ran           the handlers the dispatcher ran for it
\*   pc            the await the handler is suspended at, or the statement it
\*                 is at while it runs
\*   msg           the placeholder reply's content (Unbound: msg not assigned)
\*   edits         completed msg.edit calls of the handler itself
\*   location      the scratch directory path, file the downloaded file
\*   media_upload  the path the upload endpoint returned
\*   page          the arguments given to create_page, path the page's path
\*   downloaded    message.download has returned a file
\*   linked        the edit of the placeholder to the result URL is done
\*   exc           the exception raised last, exit how the invocation ended
\* clock: the last reading of the wall clock; dirs, files: the scratch part of the file system.
VARIABLES inv, clock, dirs, files

vars == <<inv, clock, dirs, files>>

Unbound == "<unbound>"
Processing == "processing..."
Unable == "unable to generate instant view link."
ErrorText(e) == "**error:**\n" \o e
NoPath == <<>>
NoFile == [dir |-> NoPath, name |-> 0]
NoPage == [called |-> FALSE, title |-> <<>>, html_content |-> <<>>,
           author_name |-> <<>>, author_url |-> None]

Idle ==
    [msgIn |-> NoMessage, ran |-> {}, pc |-> "idle", msg |-> Unbound, edits |-> 0,
     location |-> NoPath, file |-> NoFile, media_upload |-> "", page |-> NoPage,
     path |-> "", downloaded |-> FALSE, linked |-> FALSE,
     exc |-> "none", exit |-> "none"]

Init ==
    /\ inv = [i \in Slots |-> Idle]
    /\ clock = 0
    /\ dirs = {}
    /\ files = {}

Set(i, r) == inv' = [inv EXCEPT ![i] = r]

\* A handler runs on the event loop without interleaving from one await to
\* the next.  While it runs, its state is st: its invocation record r and
\* the clock and file system it reads and writes.
St(i) == [r |-> inv[i], clock |-> clock, dirs |-> dirs, files |-> files]

Commit(i, st) ==
    /\ inv' = [inv EXCEPT ![i] = st.r]
    /\ clock' = st.clock
    /\ dirs' = st.dirs
    /\ files' = st.files

\* The handler returns: its locals other than the placeholder are gone.
Return(r, how) ==
    [r EXCEPT !.pc = "done", !.exit = how, !.location = NoPath, !.file = NoFile,
              !.media_upload = "", !.path = ""]

\* The first statement of a handler.
Entry(name) ==
    CASE name = "start_handlers" -> "s_reply"
      [] name = "photo_handler" -> "p_reply"
      [] name = "text_handler" -> "t_reply"

\* The dispatcher receives a message of M and starts the handlers it
\* selects; a message no handler is run for is dropped.
Dispatch(i, M) ==
    /\ inv[i].pc = "idle"
    /\ \E m \in M :
       LET run == HandlersRun(m)
       IN Set(i, [inv[i] EXCEPT
                    !.msgIn = m,
                    !.ran = run,
                    !.pc = IF run = {} THEN "done"
                           ELSE Entry(Registry[CHOOSE k \in 1..Len(Registry) :
                                    /\ Registry[k].name \in run
                                    /\ \A j \in 1..(k - 1) : Registry[j].name \notin run].name),
                    !.exit = IF run = {} THEN "no_handler" ELSE "none"])
    /\ UNCHANGED <<clock, dirs, files>>

\* ------------------------------------------------------------ start_handlers

\* await message.reply(...): the reply is sent, or the failure leaves the
\* handler (start_handlers has no try).
StartReply(st) ==
    {[st EXCEPT !.r = Return(@, "replied")],
     [st EXCEPT !.r = Return([@ EXCEPT !.exc = "Exception"], "escaped")]}

\* ------------------------------------------------------------- photo_handler

DigitChars == <<"0", "1", "2", "3", "4", "5", "6", "7", "8", "9">>

\* str(n) of a natural number, as a sequence of characters.
RECURSIVE Digits(_)
Digits(n) ==
    IF n < 10 THEN <<DigitChars[n + 1]>>
    ELSE Digits(n \div 10) \o <<DigitChars[(n % 10) + 1]>>

\* str(time.time()) at a clock reading of t whole seconds: "t.0".
TimeStr(t) == Digits(t) \o <<".", "0">>

\* f"./{message.from_user.id}{time.time()}/"
ScratchPath(sender, t) == <<".", "/">> \o Digits(sender) \o TimeStr(t) \o <<"/">>

\* What the upload endpoint may return as media_upload[0].
UploadPaths == {"/file/a.jpg", "/file/b.jpg"}

\* The link built the way text_handler builds its own, with a "/" added.
TelegraphLinkSlash(p) == "https://telegra.ph/" \o p

\* f"https://telegra.ph{media_upload[0]}"
TelegraphLink(p) == "https://telegra.ph" \o p

\* photo_handler without its "except FileNotFoundError: pass" clause.
PhotoRaiseNoPass(r, e) == [r EXCEPT !.pc = "p_except", !.exc = e]

\* The except clauses of photo_handler: FileNotFoundError is passed over,
\* any other exception goes to the clause that edits the placeholder.
PhotoRaise(r, e) ==
    IF e = "FileNotFoundError"
    THEN Return([r EXCEPT !.exc = e], "pass")
    ELSE [r EXCEPT !.pc = "p_except", !.exc = e]

\* msg = await message.reply_text(..., quote=True)
PhotoReplyText(st) ==
    {[st EXCEPT !.r = [@ EXCEPT !.msg = Processing, !.pc = "p_makedirs"]],
     [st EXCEPT !.r = PhotoRaise(@, "Exception")]}

\* location = ...; os.makedirs(location, exist_ok=True); start_time = ...
\* time.time() reads the clock, which has not gone back since its last reading.
PhotoMakedirs(st) ==
    UNION {
        LET loc == ScratchPath(st.r.msgIn.sender, t)
            at == [st EXCEPT !.clock = t, !.r = [@ EXCEPT !.location = loc]]
        IN {[at EXCEPT !.r = [@ EXCEPT !.pc = "p_download"], !.dirs = @ \cup {loc}],
            [at EXCEPT !.r = PhotoRaise(@, "OSError")]}
        : t \in {t \in ClockReadings : t >= st.clock}}

\* file = await message.download(location, ...): the file is written into
\* the directory (created when missing) under a name of its own, or the
\* download raises.  slot stands for the name's random part.  (While the
\* download is pending, the progress callback of utils rewrites the
\* placeholder; those edits are over when the download returns and are not
\* counted in edits.)
PhotoDownload(st, slot) ==
    LET f == [dir |-> st.r.location, name |-> slot]
    IN {[st EXCEPT !.r = [@ EXCEPT !.file = f, !.downloaded = TRUE, !.pc = "p_upload"],
                   !.dirs = @ \cup {st.r.location},
                   !.files = @ \cup {f}]}
       \cup {[st EXCEPT !.r = PhotoRaise(@, e)] : e \in {"FileNotFoundError", "Exception"}}

\* media_upload = upload_file(file); telegraph_link = ...
\* The upload answers with a path, fails, or finds the file gone.
PhotoUpload(st) ==
    {[st EXCEPT !.r = [@ EXCEPT !.media_upload = p, !.pc = "p_edit"]] :
        p \in IF st.r.file \in st.files THEN UploadPaths ELSE {}}
    \cup {[st EXCEPT !.r = PhotoRaise(@, "Exception")],
          [st EXCEPT !.r = PhotoRaise(@, "FileNotFoundError"),
                     !.files = @ \ {st.r.file}]}

\* await msg.edit(telegraph_link)
PhotoEdit(st) ==
    {[st EXCEPT !.r = [@ EXCEPT !.msg = TelegraphLink(st.r.media_upload),
                                !.edits = @ + 1, !.linked = TRUE, !.pc = "p_remove"]],
     [st EXCEPT !.r = PhotoRaise(@, "Exception")]}

\* os.remove(file): removes the file, is refused, or finds the file gone.
PhotoRemove(st) ==
    (IF st.r.file \in st.files
     THEN {[st EXCEPT !.r = [@ EXCEPT !.pc = "p_rmdir"], !.files = @ \ {st.r.file}],
           [st EXCEPT !.r = PhotoRaise(@, "OSError")]}
     ELSE {})
    \cup {[st EXCEPT !.r = PhotoRaise(@, "FileNotFoundError"),
                     !.files = @ \ {st.r.file}]}

\* os.rmdir(location): a missing directory is a FileNotFoundError, one that
\* still holds a file an OSError; an empty one is removed, or the removal is
\* refused.
PhotoRmdir(st) ==
    LET loc == st.r.location
    IN IF loc \notin st.dirs
       THEN {[st EXCEPT !.r = PhotoRaise(@, "FileNotFoundError")]}
       ELSE IF \E f \in st.files : f.dir = loc
       THEN {[st EXCEPT !.r = PhotoRaise(@, "OSError")]}
       ELSE {[st EXCEPT !.r = Return(@, "success"), !.dirs = @ \ {loc}],
             [st EXCEPT !.r = PhotoRaise(@, "OSError")]}

\* except Exception as e: logger.error(e); await msg.edit(f"**error:**\n{e}")
\* With msg never assigned the clause itself raises UnboundLocalError; a
\* failure of the edit leaves the handler as well.
ReportError(st) ==
    IF st.r.msg = Unbound
    THEN {[st EXCEPT !.r = Return([@ EXCEPT !.exc = "UnboundLocalError"], "escaped")]}
    ELSE {[st EXCEPT !.r = Return([@ EXCEPT !.msg = ErrorText(st.r.exc),
                                            !.edits = @ + 1], "reported")],
          [st EXCEPT !.r = Return([@ EXCEPT !.exc = "Exception"], "escaped")]}

\* -------------------------------------------------------------- text_handler

\* What the page-creation endpoint may return as response["path"].
PagePaths == {"Alice-01-01"}

\* f"https://telegra.ph/{path}"
PageLink(p) == "https://telegra.ph/" \o p

\* Lines 170-177: the title, from the title line or the sender's first name.
Title(m) ==
    LET content == StripEmoji(m.text)
        match == TitleSearch(content)
    IN IF match.found THEN Strip(Group1(content, match)) ELSE m.first_name

\* content before line 178: the body left by emoji stripping and title removal.
Body(m) ==
    LET content == StripEmoji(m.text)
        match == TitleSearch(content)
    IN IF match.found THEN Strip(SubTitleOnce(content, match)) ELSE content

\* Lines 170-188: the arguments of create_page.
Transform(m) ==
    [called |-> TRUE,
        title |-> Title(m),
        html_content |-> ReplaceNewlines(Body(m)),
        author_name |-> m.first_name,
        author_url |-> IF m.username # None /\ m.username # ""
                       THEN "https://telegram.dog/" \o m.username ELSE None]

\* The except clauses of text_handler: both edit the placeholder.
TextRaise(r, e) == [r EXCEPT !.pc = "t_except", !.exc = e]

\* msg = await message.reply_text(..., quote=True)
TextReplyText(st) ==
    {[st EXCEPT !.r = [@ EXCEPT !.msg = Processing, !.pc = "t_account"]],
     [st EXCEPT !.r = TextRaise(@, "Exception")]}

\* user = Telegraph().create_account(short_name=short_name)
TextCreateAccount(st) ==
    {[st EXCEPT !.r = [@ EXCEPT !.pc = "t_page"]],
     [st EXCEPT !.r = TextRaise(@, "Exception")]}

\* Lines 170-190: the content is transformed and create_page is called with
\* it; the service answers with a path, rejects the content (ValueError) or
\* fails.
TextCreatePage(st) ==
    LET called == [st EXCEPT !.r = [@ EXCEPT !.page = Transform(st.r.msgIn)]]
    IN {[called EXCEPT !.r = [@ EXCEPT !.path = p, !.pc = "t_edit"]] : p \in PagePaths}
       \cup {[called EXCEPT !.r = TextRaise(@, e)] : e \in {"ValueError", "Exception"}}

\* await msg.edit(f"https://telegra.ph/{path}")
TextEdit(st) ==
    {[st EXCEPT !.r = Return([@ EXCEPT !.msg = PageLink(st.r.path), !.edits = @ + 1,
                                       !.linked = TRUE], "success")],
     [st EXCEPT !.r = TextRaise(@, "Exception")]}

\* except ValueError as e: logger.error(e); await msg.edit("unable ...")
ReportUnable(st) ==
    IF st.r.msg = Unbound
    THEN {[st EXCEPT !.r = Return([@ EXCEPT !.exc = "UnboundLocalError"], "escaped")]}
    ELSE {[st EXCEPT !.r = Return([@ EXCEPT !.msg = Unable, !.edits = @ + 1],
                                  "reported")],
          [st EXCEPT !.r = Return([@ EXCEPT !.exc = "Exception"], "escaped")]}

\* The two except clauses of text_handler.
TextExcept(st) ==
    IF st.r.exc = "ValueError" THEN ReportUnable(st) ELSE ReportError(st)

\* ------------------------------------------------------------- the event loop

\* The places a handler is suspended at (an await), or has returned at.
AwaitPcs ==
    {"s_reply", "p_reply", "p_download", "p_edit", "p_except",
     "t_reply", "t_edit", "t_except", "done"}

\* The statements between two awaits.
Statement(st) ==
    CASE st.r.pc = "p_makedirs" -> PhotoMakedirs(st)
      [] st.r.pc = "p_upload" -> PhotoUpload(st)
      [] st.r.pc = "p_remove" -> PhotoRemove(st)
      [] st.r.pc = "p_rmdir" -> PhotoRmdir(st)
      [] st.r.pc = "t_account" -> TextCreateAccount(st)
      [] st.r.pc = "t_page" -> TextCreatePage(st)

\* The handler runs on from st until it awaits again or returns.
RECURSIVE Run(_)
Run(st) ==
    IF st.r.pc \in AwaitPcs THEN {st}
    ELSE UNION {Run(n) : n \in Statement(st)}

\* The awaited call of the handler in slot i completes with one of the results
\* in outcomes, and the handler runs on to its next await.
Resume(i, outcomes) == \E n \in outcomes : \E f \in Run(n) : Commit(i, f)

StartReplied(i) == inv[i].pc = "s_reply" /\ Resume(i, StartReply(St(i)))

PhotoReplied(i) == inv[i].pc = "p_reply" /\ Resume(i, PhotoReplyText(St(i)))

PhotoDownloaded(i) == inv[i].pc = "p_download" /\ Resume(i, PhotoDownload(St(i), i))

PhotoEdited(i) == inv[i].pc = "p_edit" /\ Resume(i, PhotoEdit(St(i)))

PhotoReported(i) == inv[i].pc = "p_except" /\ Resume(i, ReportError(St(i)))

TextReplied(i) == inv[i].pc = "t_reply" /\ Resume(i, TextReplyText(St(i)))

TextEdited(i) == inv[i].pc = "t_edit" /\ Resume(i, TextEdit(St(i)))

TextReported(i) == inv[i].pc = "t_except" /\ Resume(i, TextExcept(St(i)))

\* ----------------------------------------------------------- specifications

\* The bot: messages of every kind, handlers in flight together.
Next ==
    \/ \E i \in Slots : Dispatch(i, Inbound)
    \/ \E i \in Slots : StartReplied(i)
    \/ \E i \in Slots : PhotoReplied(i)
    \/ \E i \in Slots : PhotoDownloaded(i)
    \/ \E i \in Slots : PhotoEdited(i)
    \/ \E i \in Slots : PhotoReported(i)
    \/ \E i \in Slots : TextReplied(i)
    \/ \E i \in Slots : TextEdited(i)
    \/ \E i \in Slots : TextReported(i)

Spec == Init /\ [][Next]_vars

\* The text flow alone, on one private text message of any content.
TextNext ==
    \/ Dispatch(1, TextInbound)
    \/ TextReplied(1)
    \/ TextEdited(1)
    \/ TextReported(1)

TextSpec == Init /\ [][TextNext]_vars

\* ------------------------------------------------------------------- claims

Photo(i) == "photo_handler" \in inv[i].ran
Text(i) == "text_handler" \in inv[i].ran
Links == {TelegraphLink(p) : p \in UploadPaths}
PageLinks == {PageLink(p) : p \in PagePaths}
Errors == {ErrorText(e) : e \in {"Exception", "OSError", "ValueError", "FileNotFoundError"}}
Count(s, c) == Cardinality({k \in 1..Len(s) : s[k] = c})

\* The invocation in slot i ends with this step.
Ends(i) == inv[i].pc # "done" /\ inv'[i].pc = "done"

\* The scratch file of slot i, once downloaded.
ScratchFile(i) == [dir |-> inv[i].location, name |-> i]

\* C1: when a photo_handler or text_handler invocation that created its
\* placeholder has ended, the placeholder has been edited exactly once, to
\* the result URL or to an error string.
C1_EditedExactlyOnce ==
    \A i \in Slots :
        (Photo(i) \/ Text(i)) /\ inv[i].pc = "done" /\ inv[i].msg # Unbound
        => /\ inv[i].edits = 1
           /\ inv[i].msg \in Links \cup PageLinks \cup Errors \cup {Unable}

C3_EveryErrorReported ==
    \A i \in Slots :
        (Photo(i) \/ Text(i)) /\ inv[i].pc = "done"
        => /\ inv[i].exit # "escaped"
           /\ inv[i].exc # "none" => inv[i].exit = "reported" /\ inv[i].msg \in Errors \cup {Unable}

\* C4: two photo_handler invocations in flight together whose senders differ
\* have different scratch directories.
C4_SendersApartDirsApart ==
    \A i, j \in Slots :
        /\ i # j
        /\ inv[i].pc # "done" /\ inv[j].pc # "done"
        /\ inv[i].location # NoPath /\ inv[j].location # NoPath
        /\ inv[i].msgIn.sender # inv[j].msgIn.sender
        => inv[i].location # inv[j].location

\* The first line of s, and what follows its line break.
FirstLine(s) ==
    LET nl == {k \in 1..Len(s) : s[k] = NL}
    IN IF nl = {} THEN s ELSE SubSeq(s, 1, (CHOOSE k \in nl : \A j \in nl : k <= j) - 1)
AfterFirstLine(s) == SubSeq(s, Len(FirstLine(s)) + 2, Len(s))

\* The first line of s is "Title: X": the word, an optional colon, X.
HasTitleLine(s) == Len(s) >= 1 /\ s[1] \in TitleWords
TitleX(s) ==
    LET l == FirstLine(s)
    IN IF Len(l) >= 2 /\ l[2] = COLON THEN SubSeq(l, 3, Len(l)) ELSE SubSeq(l, 2, Len(l))

\* s with its leading and trailing spaces and line breaks removed.
RECURSIVE Trimmed(_)
Trimmed(s) ==
    IF s = <<>> THEN s
    ELSE IF Head(s) \in {SP, NL} THEN Trimmed(Tail(s))
    ELSE IF s[Len(s)] \in {SP, NL} THEN Trimmed(SubSeq(s, 1, Len(s) - 1))
    ELSE s

\* s without emoji tags.
Plain(s) == SelectSeq(s, LAMBDA c : c # EmojiOpen /\ c # EmojiClose)

\* s with each line break turned into the markup.
Marked(s) == [k \in 1..Len(s) |-> IF s[k] = NL THEN BR ELSE s[k]]

\* C5: for a message whose first line is "Title: X", create_page is given
\* the title X trimmed (X without its emoji tags) and a body that is the rest
\* of the message, without that first line.
C5_TitleLineIsTitle ==
    LET r == inv[1]
        t == r.msgIn.text
    IN r.page.called /\ HasTitleLine(t)
       => /\ r.page.title = Trimmed(Plain(TitleX(t)))
          /\ r.page.html_content = Marked(Trimmed(Plain(AfterFirstLine(t))))

\* No line of s begins with the word "title".
NoTitleLine(s) ==
    \A k \in 1..Len(s) : s[k] \in TitleWords => k > 1 /\ s[k - 1] # NL

\* C6 as stated: for a message no line of which begins with "title",
\* create_page is given the sender's first name as the title and the whole
\* text (emoji tags removed, line breaks marked up) as the body.
C6_NoTitleLineGivesFirstName ==
    LET r == inv[1]
        t == r.msgIn.text
    IN r.page.called /\ NoTitleLine(t)
       => /\ r.page.title = r.msgIn.first_name
          /\ r.page.html_content = Marked(Plain(t))

\* C6 as amended: for a message no line of which begins with "title" once
\* its emoji tags are removed, create_page is given the sender's first name
\* as the title and the whole text (emoji tags removed, line breaks marked
\* up) as the body, wherever else the word "title" occurs.
C6_NoStrippedTitleLineGivesFirstName ==
    LET r == inv[1]
        t == r.msgIn.text
    IN r.page.called /\ NoTitleLine(Plain(t))
       => /\ r.page.title = r.msgIn.first_name
          /\ r.page.html_content = Marked(Plain(t))

C6_Witness ==
    LET r == inv[1]
        t == r.msgIn.text
    IN /\ r.page.called /\ NoTitleLine(Plain(t))
       /\ \E k \in 1..Len(t) : t[k] \in TitleWords
       /\ \E k \in 1..Len(t) : t[k] = NL
       /\ r.page.title = <<"Alice">>

\* C7 as stated: the HTML given to create_page holds exactly as many "<br>"
\* as the body had line breaks, and no line break.
C7_BreaksEqualNewlines ==
    LET r == inv[1]
    IN r.page.called
       => /\ Count(r.page.html_content, BR) = Count(Body(r.msgIn), NL)
          /\ Count(r.page.html_content, NL) = 0

\* C7 as amended: the HTML given to create_page holds one "<br>" for every
\* line break of the body besides the "<br>" the body already held, every
\* token that was no line break is kept in place, and no line break is left.
C7_BreaksAddedPerNewline ==
    LET r == inv[1]
        b == Body(r.msgIn)
        h == r.page.html_content
    IN r.page.called
       => /\ Count(h, BR) = Count(b, NL) + Count(b, BR)
          /\ Count(h, NL) = 0
          /\ Len(h) = Len(b)
          /\ \A k \in 1..Len(b) : b[k] # NL => h[k] = b[k]

C7_Witness ==
    LET r == inv[1]
    IN /\ r.page.called
       /\ Count(Body(r.msgIn), NL) = 2
       /\ Count(Body(r.msgIn), BR) = 0
       /\ Count(r.page.html_content, BR) = 2

\* C8: the dispatcher runs at most one handler for a message: start_handlers
\* alone for a private incoming "/start" text message, none for a message of
\* a chat that is not private, none (and nothing else happens) for a message
\* no filter matches.
C8_AtMostOneHandler ==
    \A i \in Slots :
        LET r == inv[i]
            m == r.msgIn
        IN r.pc # "idle"
           => /\ Cardinality(r.ran) <= 1
              /\ m.private /\ ~m.outgoing /\ m.command /\ m.media = "text"
                 => r.ran = {"start_handlers"}
              /\ ~m.private => r.ran = {}
              /\ ~StartFilter(m) /\ ~PhotoFilter(m) /\ ~TextFilter(m)
                 => r.ran = {} /\ r.pc = "done" /\ r.msg = Unbound /\ r.edits = 0

C8_Witness ==
    \E i \in Slots :
        LET m == inv[i].msgIn
        IN /\ m.private /\ ~m.outgoing /\ m.command /\ m.media = "text"
           /\ StartFilter(m) /\ TextFilter(m)
           /\ inv[i].ran = {"start_handlers"}
           /\ inv[i].exit = "replied"

\* C9: a photo_handler invocation that ends by success or by the passed-over
\* FileNotFoundError leaves neither its scratch file nor its scratch
\* directory behind.
C9_ScratchGoneOnSuccessAndPass ==
    [][\A i \in Slots :
          Photo(i) /\ Ends(i) /\ inv'[i].exit \in {"success", "pass"}
          => /\ ScratchFile(i) \notin files'
             /\ inv[i].location \notin dirs']_vars

====
